---- MODULE Spec2Model ----
(***************************************************************************)
(* Model of the calendar chatbot of hurshh/Ai-Calendar:                    *)
(*   CalendarGPTBot  (src/server/services/chatbot/calendar_chatbot_gpt.py) *)
(*   CalendarHandler (src/server/services/calendar_handler.py)             *)
(*                                                                         *)
(* Instants are integers counting milliseconds since day 0, 00:00:00 UTC.  *)
(* A Python datetime is a record [wall, tz]: wall is the wall-clock        *)
(* reading in milliseconds, tz the UTC offset in milliseconds (NoTz for a  *)
(* naive datetime).  A timestamp string is a record of its printed fields. *)
(***************************************************************************)
EXTENDS Integers, Sequences, FiniteSets, TLC

VARIABLES
    local_timezone,  \* CalendarGPTBot.local_timezone (UTC offset, ms)
    service,         \* CalendarHandler.service is set (authenticate succeeded)
    now,             \* the wall clock, a UTC instant in ms
    calendar,        \* the events held by the remote calendar
    next_id,         \* the identifier the remote calendar assigns next
    query,           \* text of the last process_query call
    classified,      \* what the classifier answers (or would answer) to it
    current,         \* the clock as handle_show_events read it (line 278)
    outcome,         \* how that call ended: the text returned, or raised
    gpt_calls,       \* user messages handed to the classifier by that call
    handlers,        \* handlers that call dispatched to, in order
    calls,           \* calendar handler calls made by that call, in order
    expr,            \* input of the last _parse_datetime evaluation
    clock_reads,     \* the clock readings that evaluation saw
    resolved,        \* its result
    slot_query,      \* arguments of the last find_available_slots call
    available_slots, \* the list that call returned
    pc               \* "idle", or "answered" while the last answer is held

vars == <<local_timezone, service, now, calendar, next_id, query, classified, current, outcome,
          gpt_calls, handlers, calls, expr, clock_reads, resolved, slot_query,
          available_slots, pc>>

-----------------------------------------------------------------------------
(* Bounds of the model *)

MaxQueryLen == 2      \* atoms in a query
MaxTicks == 1         \* clock ticks between requests
MaxInitEvents == 2    \* events in the calendar at construction
MaxCreated == 1       \* events created by ScheduleEvent

-----------------------------------------------------------------------------
(* Time arithmetic *)

Second == 1 * 1000
Minute == 60 * Second
Hour == 60 * Minute
Day == 24 * Hour

\* tzinfo of a naive datetime (an aware one carries its offset in ms)
NoTz == 0 - 1

At(d, h, m, s) == d * Day + h * Hour + m * Minute + s * Second

\* UTC offsets a machine may be configured with: UTC-5, UTC, UTC+5:30
TimeZones == {0 - 5 * Hour, 0, 5 * Hour + 30 * Minute}

-----------------------------------------------------------------------------
(* Python datetime *)

\* datetime.now(tz) read when the clock shows instant clk
datetime_now(clk, tz) == [wall |-> clk + tz, tz |-> tz]

\* datetime.now(): naive local time of the machine
datetime_now_naive(clk, tz) == [wall |-> clk + tz, tz |-> NoTz]

timedelta_days(dt, n) == [dt EXCEPT !.wall = @ + n * Day]

dt_date(dt) == dt.wall \div Day
dt_hour(dt) == (dt.wall % Day) \div Hour
dt_minute(dt) == (dt.wall % Hour) \div Minute

\* dt.replace(hour=h, minute=m): date, second and microsecond are kept
replace_hour_minute(dt, h, m) ==
    [dt EXCEPT !.wall = dt_date(dt) * Day + h * Hour + m * Minute + (dt.wall % Minute)]

\* dt.astimezone(pytz.UTC) as an instant
astimezone_utc(dt) == dt.wall - dt.tz

\* A date as printed text: "YYYY-MM-DD" of day number day, or a text that is
\* no date at all (iso = FALSE)
IsoDate(d) == [iso |-> TRUE, day |-> d, text |-> ""]
TextDate(s) == [iso |-> FALSE, day |-> 0, text |-> s]

\* A timestamp string "<date>T<HH>:<MM>:<SS>[.fff][Z]" as its printed fields
Timestamp(date, h, m, s, frac, zone) ==
    [kind |-> "iso", date |-> date, hour |-> h, minute |-> m, second |-> s, frac |-> frac, zone |-> zone]

\* strftime('%Y-%m-%dT%H:%M:%S.000Z') of an instant: sub-second part dropped
strftime_utc(t) ==
    Timestamp(IsoDate(t \div Day), (t % Day) \div Hour, (t % Hour) \div Minute,
              (t % Minute) \div Second, "000", "Z")

\* naive.strftime('%Y-%m-%d')
strftime_date(dt) == IsoDate(dt_date(dt))

FracMs(frac) == IF frac = "999" THEN 999 ELSE 0

\* The wall-clock reading printed in a timestamp
TimestampWall(ts) ==
    At(ts.date.day, ts.hour, ts.minute, ts.second) + FracMs(ts.frac)

\* The instant a Z-suffixed timestamp denotes
TimestampInstant(ts) == TimestampWall(ts)

\* fromisoformat losing the zone of the text
fromisoformat_naive(ts) == [wall |-> TimestampWall(ts), tz |-> NoTz]

\* datetime.fromisoformat(s) for a timestamp s whose date is one: aware (UTC) when
\* the text carries a zone, naive otherwise.  Python before 3.11 rejects the
\* "Z" suffix here and the callers retry with 'Z' replaced by '+00:00'; both
\* routes produce the same datetime.
fromisoformat(ts) ==
    [wall |-> TimestampWall(ts), tz |-> IF ts.zone = "Z" THEN 0 ELSE NoTz]

-----------------------------------------------------------------------------
(* Time expressions and CalendarGPTBot._parse_datetime *)

\* "<word>" or "<word> at <hour> <suffix>", word being tomorrow or today in
\* some letter case, suffix am or pm in some letter case or nothing
RelExpr(word, at, hour, suffix) ==
    [kind |-> "rel", word |-> word, at |-> at, hour |-> hour, suffix |-> suffix]

\* A text that names no keyword and is no ISO string, like "next week"
TextExpr(s) == [kind |-> "text", text |-> s]

\* str.lower() on the words the model writes in upper case
Lower(s) ==
    CASE s = "Tomorrow" -> "tomorrow"
      [] s = "Today" -> "today"
      [] s = "AM" -> "am"
      [] s = "PM" -> "pm"
      [] s = "Delete all events" -> "delete all events"
      [] s = "Help" -> "help"
      [] OTHER -> s

Returned(v) == [raised |-> FALSE, value |-> v]

\* The parser's own error let through, without the expression
ValueError_of_parser(date_str) == [raised |-> TRUE, error |-> "Invalid isoformat string", arg |-> ""]

\* raise ValueError(f"Could not parse date: {date_str}. ...")
ValueError(date_str) == [raised |-> TRUE, error |-> "Could not parse date", arg |-> date_str]

\* hour of a 12-hour clock time, lines 188-199 and 209-219
clock_hour(hour, suffix) ==
    IF suffix = "pm" THEN (IF hour = 12 THEN hour ELSE hour + 12)
    ELSE IF suffix = "am" THEN (IF hour = 12 THEN 0 ELSE hour)
    ELSE hour

\* _parse_datetime(date_str) with the three readings of the clock it may take
\* (reads[1]: base date, reads[2] and reads[3]: hour and minute of "tomorrow"
\* without a time) and self.local_timezone = tz
parse_datetime(date_str, reads, tz) ==
    IF date_str.kind = "rel" THEN
        LET word == Lower(date_str.word)
            today == datetime_now(reads[1], tz)
            base_date == IF word = "tomorrow" THEN timedelta_days(today, 1) ELSE today
            hour == clock_hour(date_str.hour, Lower(date_str.suffix))
        IN  IF date_str.at THEN
                IF hour \in 0..23
                THEN Returned(strftime_utc(astimezone_utc(replace_hour_minute(base_date, hour, 0))))
                ELSE ValueError(date_str)
            ELSE IF word = "tomorrow" THEN
                Returned(strftime_utc(astimezone_utc(
                    replace_hour_minute(base_date,
                                        dt_hour(datetime_now(reads[2], tz)),
                                        dt_minute(datetime_now(reads[3], tz))))))
            ELSE Returned(strftime_utc(astimezone_utc(base_date)))
    ELSE IF date_str.kind = "iso" /\ date_str.date.iso THEN
        LET parsed == fromisoformat(date_str)
            base_date == IF parsed.tz = NoTz THEN [parsed EXCEPT !.tz = tz] ELSE parsed
        IN  Returned(strftime_utc(astimezone_utc(base_date)))
    ELSE ValueError(date_str)

\* _format_event_time(time_str): the local display fields, or the text itself
\* when it is no ISO string
format_event_time(time_str, tz) ==
    IF time_str.kind = "iso" /\ time_str.date.iso THEN
        LET dt == fromisoformat(time_str)
            local == (IF dt.tz = NoTz THEN dt.wall ELSE dt.wall - dt.tz + tz)
        IN  [kind |-> "display", date |-> local \div Day,
             hour |-> (local % Day) \div Hour, minute |-> (local % Hour) \div Minute]
    ELSE time_str

-----------------------------------------------------------------------------
(* The remote calendar and CalendarHandler *)

\* An event of the remote calendar.  A timed event holds its start and end
\* instants; an all-day event (start carries a date and no dateTime) holds the
\* bounds of its day.
Event(id, summary, description, all_day, start, end) ==
    [id |-> id, summary |-> summary, description |-> description,
     all_day |-> all_day, start |-> start, end |-> end]

\* How a request to the remote service ends: it is served, it fails with an
\* HttpError, or it fails with another exception (transport, credentials)
Outcomes == {"ok", "http", "exc"}

Raised == [raised |-> TRUE, error |-> "Exception"]

\* A timestamp the remote service accepts
WellFormed(ts) == ts.kind = "iso" /\ ts.date.iso /\ ts.zone = "Z"

\* orderBy='startTime': ascending start, ties by identifier.  The place of an
\* event in the list is one more than the number of events before it.
SortByStart(events) ==
    LET Before(e, f) == e.start < f.start \/ (e.start = f.start /\ e.id < f.id)
    IN  [i \in 1..Cardinality(events) |->
            CHOOSE e \in events : Cardinality({f \in events : Before(f, e)}) = i - 1]

Take(seq, n) == SubSeq(seq, 1, IF Len(seq) < n THEN Len(seq) ELSE n)

\* max_results of get_events
max_results == 50

\* service.events().list(timeMin, timeMax, singleEvents, orderBy='startTime'):
\* the events that end after timeMin and start before timeMax
events_list(cal, timeMin, timeMax) ==
    Take(SortByStart({e \in cal : e.end > TimestampInstant(timeMin)
                                  /\ e.start < TimestampInstant(timeMax)}),
         max_results)

\* CalendarHandler.get_events(start_time, end_time) when the remote request
\* ends as outcome o: the list, [] after an HttpError (also the one the
\* service answers to a malformed or empty range) or without a service; any
\* other exception leaves the method
get_events(cal, svc, start_time, end_time, o) ==
    IF ~svc THEN Returned(<<>>)
    ELSE IF o = "exc" THEN Raised
    ELSE IF o = "http" THEN Returned(<<>>)
    ELSE IF WellFormed(start_time) /\ WellFormed(end_time)
            /\ TimestampInstant(start_time) < TimestampInstant(end_time)
         THEN Returned(events_list(cal, start_time, end_time))
         ELSE Returned(<<>>)

\* CalendarHandler.delete_event(event_id): True when the remote calendar
\* removed the event, False after an HttpError (also the one for an unknown
\* identifier) or without a service; any other exception leaves the method
delete_event(cal, svc, event_id, o) ==
    IF ~svc THEN [raised |-> FALSE, value |-> FALSE, cal |-> cal]
    ELSE IF o = "exc" THEN [raised |-> TRUE, error |-> "Exception", cal |-> cal]
    ELSE IF o = "ok" /\ \E e \in cal : e.id = event_id
         THEN [raised |-> FALSE, value |-> TRUE, cal |-> {e \in cal : e.id # event_id}]
         ELSE [raised |-> FALSE, value |-> FALSE, cal |-> cal]

\* The value None of an event identifier
None == 0

\* CalendarHandler.add_event(title, start_time, duration_minutes, description):
\* the new identifier, or None after any failure (every exception is caught)
add_event(cal, svc, id, title, start_time, duration_minutes, description, o) ==
    IF svc /\ o = "ok" /\ start_time.kind = "iso" /\ start_time.date.iso
       /\ duration_minutes >= 0
    THEN LET start_dt == TimestampInstant(start_time)
             end_dt == start_dt + duration_minutes * Minute
         IN  [raised |-> FALSE, value |-> id,
              cal |-> cal \cup {Event(id, title, description, FALSE, start_dt, end_dt)}]
    ELSE [raised |-> FALSE, value |-> None, cal |-> cal]

\* An argument that was not passed (Python None)
Absent == [kind |-> "absent"]

\* CalendarHandler.update_event(event_id, title, start_time, description):
\* fetches the event, overwrites the fields whose argument is truthy and writes
\* the event back; the end of the event is left as it is.  The remote service
\* refuses (HttpError) an event that starts at a dateTime and ends at a date,
\* and one that ends before it starts.
update_event(cal, svc, event_id, title, start_time, description, o) ==
    IF ~svc THEN [raised |-> FALSE, value |-> FALSE, cal |-> cal]
    ELSE IF o = "exc" THEN [raised |-> TRUE, error |-> "Exception", cal |-> cal]
    ELSE IF o = "ok" /\ \E e \in cal : e.id = event_id
         THEN LET event == CHOOSE e \in cal : e.id = event_id
                  e1 == IF title # "" THEN [event EXCEPT !.summary = title] ELSE event
                  e2 == IF description # "" THEN [e1 EXCEPT !.description = description] ELSE e1
                  e3 == IF start_time # Absent
                        THEN [e2 EXCEPT !.start = TimestampInstant(start_time)]
                        ELSE e2
              IN  IF ~(start_time # Absent /\ event.all_day) /\ e3.end >= e3.start
                  THEN [raised |-> FALSE, value |-> TRUE, cal |-> (cal \ {event}) \cup {e3}]
                  ELSE [raised |-> FALSE, value |-> FALSE, cal |-> cal]
         ELSE [raised |-> FALSE, value |-> FALSE, cal |-> cal]

-----------------------------------------------------------------------------
(* CalendarGPTBot: the handlers *)

\* One call of a CalendarHandler method as the bot made it: the method, the
\* time arguments and the identifier handed over, and what came back
Call(op, times, id, res, ids) ==
    [op |-> op, times |-> times, id |-> id, result |-> res, ids |-> ids]

Ids(events) == [i \in 1..Len(events) |-> events[i].id]

\* What a handler leaves behind: the text it returns (or the exception that
\* leaves it), the remote calendar, the next identifier, the calls it made
Done(value, cal, id, cs) ==
    [raised |-> FALSE, value |-> value, cal |-> cal, next_id |-> id, calls |-> cs]
Thrown(error, cal, id, cs) ==
    [raised |-> TRUE, error |-> error, cal |-> cal, next_id |-> id, calls |-> cs]

\* except Exception as e: return <text>
Except(r, text) ==
    IF r.raised THEN Done([text |-> text, error |-> r.error], r.cal, r.next_id, r.calls)
    ELSE r

\* except Exception: return <text>, a text that does not show the exception
ExceptPlain(r, text) ==
    IF r.raised THEN Done([text |-> text], r.cal, r.next_id, r.calls) ELSE r

\* The clock readings of a _parse_datetime evaluation inside a request
Reads(env) == <<env.now, env.now, env.now>>

\* Lines 444-447, one turn of the loop: the event is deleted and counted,
\* unless an earlier turn has raised.  The k-th call of the request ends as
\* oracle[k].
delete_one(st, event, svc, oracle) ==
    IF st.raised \/ event.id = None THEN st
    ELSE LET d == delete_event(st.cal, svc, event.id, oracle[Len(st.calls) + 1])
         IN  IF d.raised
             THEN [raised |-> TRUE, count |-> st.count, cal |-> d.cal,
                   calls |-> Append(st.calls,
                                    Call("delete_event", <<>>, event.id, "raised", <<>>))]
             ELSE [raised |-> FALSE,
                   count |-> IF d.value THEN st.count + 1 ELSE st.count,
                   cal |-> d.cal,
                   calls |-> Append(st.calls,
                                    Call("delete_event", <<>>, event.id,
                                         IF d.value THEN "True" ELSE "False", <<>>))]

RECURSIVE delete_from_to(_, _, _, _, _, _)
\* The turns of the loop for the events lo..hi in order: the first half of
\* them, and the rest unless one of those has raised
delete_from_to(events, lo, hi, st, svc, oracle) ==
    IF lo > hi THEN st
    ELSE IF lo = hi THEN delete_one(st, events[lo], svc, oracle)
    ELSE LET mid == (lo + hi) \div 2
             first_half == delete_from_to(events, lo, mid, st, svc, oracle)
         IN  IF first_half.raised THEN first_half
             ELSE delete_from_to(events, mid + 1, hi, first_half, svc, oracle)

\* Lines 443-447: for event in events: delete and count, from the i-th event
\* on
delete_each(events, i, deleted_count, cal, svc, oracle, cs) ==
    delete_from_to(events, i, Len(events),
                   [raised |-> FALSE, count |-> deleted_count, cal |-> cal, calls |-> cs],
                   svc, oracle)

\* handle_bulk_delete, the statements inside its try block
bulk_delete_body(start_time, end_time, env, oracle) ==
    LET st == parse_datetime(start_time, Reads(env), env.tz)
        en == parse_datetime(end_time, Reads(env), env.tz)
    IN  IF st.raised \/ en.raised THEN Thrown("ValueError", env.cal, env.next_id, <<>>)
        ELSE
        LET got == get_events(env.cal, env.svc, st.value, en.value, oracle[1])
            times == <<st.value, en.value>>
        IN  IF got.raised
            THEN Thrown(got.error, env.cal, env.next_id,
                        <<Call("get_events", times, None, "raised", <<>>)>>)
            ELSE
            LET events == got.value
                listed == <<Call("get_events", times, None, "list", Ids(events))>>
                loop == delete_each(events, 1, 0, env.cal, env.svc, oracle, listed)
            IN  IF events = <<>>
                THEN Done([text |-> "No events found in the specified time period."],
                          env.cal, env.next_id, listed)
                ELSE IF loop.raised
                THEN Thrown("Exception", loop.cal, env.next_id, loop.calls)
                ELSE IF loop.count > 0
                THEN Done([text |-> "Successfully deleted", count |-> loop.count],
                          loop.cal, env.next_id, loop.calls)
                ELSE Done([text |-> "Failed to delete events. Please try again."],
                          loop.cal, env.next_id, loop.calls)

\* handle_bulk_delete with its try block taken away
handle_bulk_delete_no_try(start_time, end_time, env, oracle) ==
    bulk_delete_body(start_time, end_time, env, oracle)

\* handle_bulk_delete(start_time, end_time)
handle_bulk_delete(start_time, end_time, env, oracle) ==
    Except(bulk_delete_body(start_time, end_time, env, oracle), "Error deleting events")

Has(params, key) == key \in DOMAIN params

\* handle_schedule_event, the statements inside its try block
schedule_event_body(params, env, oracle) ==
    IF ~Has(params, "title") \/ ~Has(params, "start_time")
    THEN Thrown("KeyError", env.cal, env.next_id, <<>>)
    ELSE
    LET st == parse_datetime(params.start_time, Reads(env), env.tz)
    IN  IF st.raised \/ ~Has(params, "duration_minutes")
        THEN Thrown(IF st.raised THEN "ValueError" ELSE "KeyError", env.cal, env.next_id, <<>>)
        ELSE
        LET added == add_event(env.cal, env.svc, env.next_id, params.title, st.value,
                               params.duration_minutes,
                               IF Has(params, "description") THEN params.description ELSE "",
                               oracle[1])
            event_id == added.value
            cs == <<Call("add_event", <<st.value>>, event_id,
                         IF event_id # None THEN "id" ELSE "None", <<>>)>>
        IN  IF event_id # None
            THEN Done([text |-> "Successfully scheduled", title |-> params.title,
                       start |-> format_event_time(params.start_time, env.tz),
                       duration |-> params.duration_minutes, event_id |-> event_id],
                      added.cal, env.next_id + 1, cs)
            ELSE Done([text |-> "Failed to schedule event. Please try again."],
                      added.cal, env.next_id, cs)

\* handle_schedule_event(params)
handle_schedule_event(params, env, oracle) ==
    Except(schedule_event_body(params, env, oracle), "Error scheduling event")

\* Lines 306-318: one line of the listing per event
event_lines(events, tz) ==
    [i \in 1..Len(events) |->
        [title |-> events[i].summary,
         at |-> IF events[i].all_day THEN TextExpr("Unknown")
                ELSE format_event_time(strftime_utc(events[i].start), tz)]]

\* The clamp applied whenever the start is past, wherever the end is
show_range_start_any_end(start_time, end_time, current_time) ==
    IF TimestampInstant(start_time) < TimestampInstant(current_time)
    THEN [start_time |-> current_time, adjusted_message |-> " (showing only upcoming events)"]
    ELSE [start_time |-> start_time, adjusted_message |-> ""]

\* The clamp without its annotation
show_range_start_silent(start_time, end_time, current_time) ==
    IF TimestampInstant(start_time) < TimestampInstant(current_time)
       /\ TimestampInstant(end_time) > TimestampInstant(current_time)
    THEN [start_time |-> current_time, adjusted_message |-> ""]
    ELSE [start_time |-> start_time, adjusted_message |-> ""]

\* Lines 285-295: the start of the range asked for and the annotation
show_range_start(start_time, end_time, current_time) ==
    LET current_dt == TimestampInstant(current_time)
        start_dt == TimestampInstant(start_time)
        end_dt == TimestampInstant(end_time)
    IN  IF start_dt < current_dt /\ end_dt > current_dt
        THEN [start_time |-> current_time, adjusted_message |-> " (showing only upcoming events)"]
        ELSE IF start_dt < current_dt /\ end_dt <= current_dt
        THEN [start_time |-> start_time, adjusted_message |-> ""]
        ELSE [start_time |-> start_time, adjusted_message |-> ""]

\* handle_show_events, the statements inside its try block
show_events_body(params, env, oracle) ==
    IF ~Has(params, "start_time") \/ ~Has(params, "end_time")
    THEN Thrown("KeyError", env.cal, env.next_id, <<>>)
    ELSE
    LET st == parse_datetime(params.start_time, Reads(env), env.tz)
        en == parse_datetime(params.end_time, Reads(env), env.tz)
    IN  IF st.raised \/ en.raised THEN Thrown("ValueError", env.cal, env.next_id, <<>>)
        ELSE
        LET current_time == strftime_utc(env.later)
            range == show_range_start(st.value, en.value, current_time)
            start_time == range.start_time
            end_time == en.value
            times == <<start_time, end_time>>
            got == get_events(env.cal, env.svc, start_time, end_time, oracle[1])
        IN  IF got.raised
            THEN Thrown(got.error, env.cal, env.next_id,
                        <<Call("get_events", times, None, "raised", <<>>)>>)
            ELSE
            LET events == got.value
                cs == <<Call("get_events", times, None, "list", Ids(events))>>
            IN  IF events = <<>>
                THEN Done([text |-> "No events found between",
                           start |-> format_event_time(start_time, env.tz),
                           end |-> format_event_time(end_time, env.tz)],
                          env.cal, env.next_id, cs)
                ELSE Done([text |-> "Here are your events between",
                           start |-> format_event_time(start_time, env.tz),
                           end |-> format_event_time(end_time, env.tz),
                           adjusted_message |-> range.adjusted_message,
                           events |-> event_lines(events, env.tz)],
                          env.cal, env.next_id, cs)

\* A listing that removes from the calendar the events it shows
handle_show_events_removing(params, env, oracle) ==
    LET r == ExceptPlain(show_events_body(params, env, oracle),
                         "Sorry, I had trouble retrieving your events. Please try again.")
    IN  [r EXCEPT !.cal = {e \in r.cal :
                              \A i \in 1..Len(r.calls) :
                                  \A j \in 1..Len(r.calls[i].ids) : r.calls[i].ids[j] # e.id}]

\* handle_show_events(params)
handle_show_events(params, env, oracle) ==
    ExceptPlain(show_events_body(params, env, oracle),
                "Sorry, I had trouble retrieving your events. Please try again.")

\* Working hours of handle_find_slots (lines 349-350) and the slot grid
start_hour == 9
end_hour == 17
slot_step_minutes == 30

\* Lines 357-364: walks the events in order.  "KeyError" at an all-day event
\* (it has no start.dateTime); "TypeError" at a timed event, whose aware
\* datetime is compared with the naive slot bounds of lines 349-354.
slot_conflict(events, i, current_time, slot_end) ==
    IF i > Len(events) THEN "free"
    ELSE IF events[i].all_day THEN "KeyError"
    ELSE "TypeError"

RECURSIVE slot_scan(_, _, _, _, _)
\* Lines 353-373: the while loop from current_time on; slots are wall-clock
\* readings of the day
slot_scan(events, current_time, end_time, duration, slots) ==
    IF current_time + duration > end_time THEN [raised |-> FALSE, slots |-> slots]
    ELSE LET slot_end == current_time + duration
             c == slot_conflict(events, 1, current_time, slot_end)
         IN  IF c \in {"KeyError", "TypeError"} THEN [raised |-> TRUE, error |-> c]
             ELSE slot_scan(events, current_time + slot_step_minutes * Minute, end_time, duration,
                            IF c = "free"
                            THEN Append(slots, [start_time |-> current_time, end_time |-> slot_end])
                            ELSE slots)

\* Lines 330-335: the date the slots are searched on
find_slots_date(date, env) ==
    IF ~date.iso /\ Lower(date.text) = "tomorrow"
    THEN strftime_date(timedelta_days(datetime_now_naive(env.now, env.tz), 1))
    ELSE IF ~date.iso /\ Lower(date.text) = "today"
    THEN strftime_date(datetime_now_naive(env.now, env.tz))
    ELSE date

\* The answer listing every slot found, without a count of the rest
slots_message_all(slots, duration_minutes, date, tz) ==
    IF slots = <<>>
    THEN [text |-> "No available slots found", duration |-> duration_minutes, date |-> date]
    ELSE [text |-> "Available slots", duration |-> duration_minutes, date |-> date,
          slots |-> [i \in 1..Len(slots) |->
                        [start |-> format_event_time(strftime_utc(slots[i].start_time), tz),
                         end |-> format_event_time(strftime_utc(slots[i].end_time), tz)]],
          more |-> 0]

\* Lines 375-387: the answer for the slots found
slots_message(slots, duration_minutes, date, tz) ==
    IF slots = <<>>
    THEN [text |-> "No available slots found", duration |-> duration_minutes, date |-> date]
    ELSE [text |-> "Available slots", duration |-> duration_minutes, date |-> date,
          slots |-> [i \in 1..(IF Len(slots) < 5 THEN Len(slots) ELSE 5) |->
                        [start |-> format_event_time(strftime_utc(slots[i].start_time), tz),
                         end |-> format_event_time(strftime_utc(slots[i].end_time), tz)]],
          more |-> IF Len(slots) > 5 THEN Len(slots) - 5 ELSE 0]

\* handle_find_slots, the statements inside its try block
find_slots_body(params, env, oracle) ==
    IF ~Has(params, "date") THEN Thrown("KeyError", env.cal, env.next_id, <<>>)
    ELSE
    LET date == find_slots_date(params.date, env)
        start_of_day == Timestamp(date, 0, 0, 0, "000", "Z")
        end_of_day == Timestamp(date, 23, 59, 59, "999", "Z")
        times == <<start_of_day, end_of_day>>
        got == get_events(env.cal, env.svc, start_of_day, end_of_day, oracle[1])
    IN  IF got.raised
        THEN Thrown(got.error, env.cal, env.next_id,
                    <<Call("get_events", times, None, "raised", <<>>)>>)
        ELSE
        LET events == got.value
            cs == <<Call("get_events", times, None, "list", Ids(events))>>
        IN  IF ~date.iso THEN Thrown("ValueError", env.cal, env.next_id, cs)
            ELSE IF ~Has(params, "duration_minutes") THEN Thrown("KeyError", env.cal, env.next_id, cs)
            ELSE
            LET scan == slot_scan(events, At(date.day, start_hour, 0, 0), At(date.day, end_hour, 0, 0),
                                  params.duration_minutes * Minute, <<>>)
            IN  IF scan.raised THEN Thrown(scan.error, env.cal, env.next_id, cs)
                ELSE Done(slots_message(scan.slots, params.duration_minutes, date, env.tz),
                          env.cal, env.next_id, cs)

\* handle_find_slots(params)
handle_find_slots(params, env, oracle) ==
    ExceptPlain(find_slots_body(params, env, oracle),
                "Sorry, I had trouble finding available slots. Please try again.")

\* handle_update_event, the statements inside its try block
update_event_body(params, env, oracle) ==
    LET st == IF Has(params, "start_time")
              THEN parse_datetime(params.start_time, Reads(env), env.tz)
              ELSE Returned(Absent)
    IN  IF st.raised THEN Thrown("ValueError", env.cal, env.next_id, <<>>)
        ELSE IF ~Has(params, "event_id") THEN Thrown("KeyError", env.cal, env.next_id, <<>>)
        ELSE
        LET upd == update_event(env.cal, env.svc, params.event_id,
                                IF Has(params, "title") THEN params.title ELSE "",
                                st.value,
                                IF Has(params, "description") THEN params.description ELSE "",
                                oracle[1])
            times == IF st.value = Absent THEN <<>> ELSE <<st.value>>
        IN  IF upd.raised
            THEN Thrown(upd.error, upd.cal, env.next_id,
                        <<Call("update_event", times, params.event_id, "raised", <<>>)>>)
            ELSE Done([text |-> IF upd.value THEN "Event updated successfully"
                                ELSE "Failed to update event. Please check the event ID and try again."],
                      upd.cal, env.next_id,
                      <<Call("update_event", times, params.event_id,
                             IF upd.value THEN "True" ELSE "False", <<>>)>>)

\* handle_update_event(params)
handle_update_event(params, env, oracle) ==
    Except(update_event_body(params, env, oracle), "Error updating event")

\* handle_delete_event, the statements inside its try block
delete_event_body(params, env, oracle) ==
    IF ~Has(params, "event_id") THEN Thrown("KeyError", env.cal, env.next_id, <<>>)
    ELSE
    LET del == delete_event(env.cal, env.svc, params.event_id, oracle[1])
    IN  IF del.raised
        THEN Thrown(del.error, del.cal, env.next_id,
                    <<Call("delete_event", <<>>, params.event_id, "raised", <<>>)>>)
        ELSE Done([text |-> IF del.value THEN "Event deleted successfully"
                            ELSE "Failed to delete event. Please check the event ID and try again."],
                  del.cal, env.next_id,
                  <<Call("delete_event", <<>>, params.event_id,
                         IF del.value THEN "True" ELSE "False", <<>>)>>)

\* handle_delete_event(params)
handle_delete_event(params, env, oracle) ==
    Except(delete_event_body(params, env, oracle), "Error deleting event")

-----------------------------------------------------------------------------
(* CalendarHandler.find_available_slots *)

\* Lines 560-572: the busy ranges of the timed events ('T' in event_start),
\* sorted by start; all-day events are skipped
busy_ranges(events) ==
    SortByStart({events[i] : i \in {j \in 1..Len(events) : ~events[j].all_day}})

\* The overlap test with closed intervals: touching endpoints conflict
slot_available_closed(busy, current_time, slot_end_time) ==
    \A i \in 1..Len(busy) :
        ~(busy[i].start <= slot_end_time /\ busy[i].end >= current_time)

\* Lines 587-590: no busy range overlaps the slot
slot_available(busy, current_time, slot_end_time) ==
    \A i \in 1..Len(busy) :
        ~(busy[i].start < slot_end_time /\ busy[i].end > current_time)

RECURSIVE available_scan_short(_, _, _, _, _)
\* The loop stopping one candidate early: a slot may not end at end_time
available_scan_short(busy, current_time, end_time, duration_minutes, found) ==
    IF current_time + duration_minutes * Minute >= end_time THEN found
    ELSE LET slot_end_time == current_time + duration_minutes * Minute
         IN  available_scan_short(busy, current_time + slot_step_minutes * Minute, end_time,
                                  duration_minutes,
                                  IF slot_available(busy, current_time, slot_end_time)
                                  THEN Append(found, [start_time |-> strftime_utc(current_time),
                                                      end_time |-> strftime_utc(slot_end_time),
                                                      duration_minutes |-> duration_minutes])
                                  ELSE found)

RECURSIVE available_scan_overrun(_, _, _, _, _)
\* The loop bounded by the start of the candidate alone: a slot may end after
\* end_time
available_scan_overrun(busy, current_time, end_time, duration_minutes, found) ==
    IF current_time > end_time THEN found
    ELSE LET slot_end_time == current_time + duration_minutes * Minute
         IN  available_scan_overrun(busy, current_time + slot_step_minutes * Minute, end_time,
                                    duration_minutes,
                                    IF slot_available(busy, current_time, slot_end_time)
                                    THEN Append(found, [start_time |-> strftime_utc(current_time),
                                                        end_time |-> strftime_utc(slot_end_time),
                                                        duration_minutes |-> duration_minutes])
                                    ELSE found)

RECURSIVE available_scan(_, _, _, _, _)
\* Lines 582-600: the while loop from current_time on
available_scan(busy, current_time, end_time, duration_minutes, found) ==
    IF current_time + duration_minutes * Minute > end_time THEN found
    ELSE LET slot_end_time == current_time + duration_minutes * Minute
         IN  available_scan(busy, current_time + slot_step_minutes * Minute, end_time,
                            duration_minutes,
                            IF slot_available(busy, current_time, slot_end_time)
                            THEN Append(found, [start_time |-> strftime_utc(current_time),
                                                end_time |-> strftime_utc(slot_end_time),
                                                duration_minutes |-> duration_minutes])
                            ELSE found)

\* CalendarHandler.find_available_slots(date, duration_minutes, start_hour,
\* end_hour), the hours named hour_from and hour_to here, when the listing
\* request ends as outcome o: the free slots, or [] without a service and
\* after any exception
find_available_slots(cal, svc, date, duration_minutes, hour_from, hour_to, o) ==
    IF ~svc THEN [value |-> <<>>, calls |-> <<>>]
    ELSE
    LET start_of_day == Timestamp(date, 0, 0, 0, "000", "Z")
        end_of_day == Timestamp(date, 23, 59, 59, "999", "Z")
        times == <<start_of_day, end_of_day>>
        got == get_events(cal, svc, start_of_day, end_of_day, o)
    IN  IF got.raised
        THEN [value |-> <<>>, calls |-> <<Call("get_events", times, None, "raised", <<>>)>>]
        ELSE [value |-> IF ~date.iso THEN <<>>
                        ELSE available_scan(busy_ranges(got.value),
                                            At(date.day, hour_from, 0, 0),
                                            At(date.day, hour_to, 0, 0),
                                            duration_minutes, <<>>),
              calls |-> <<Call("get_events", times, None, "list", Ids(got.value))>>]

-----------------------------------------------------------------------------
(* CalendarGPTBot.process_query *)

\* A query is the sequence of the pieces of text it is written with: phrases,
\* day words, the reserved words and other text
query_lower(text) == [i \in 1..Len(text) |-> Lower(text[i])]

\* phrase in text, for a phrase written as a sequence of pieces
Contains(text, phrase) ==
    \E i \in 1..Len(text) :
        i + Len(phrase) - 1 <= Len(text) /\ SubSeq(text, i, i + Len(phrase) - 1) = phrase

\* The phrase list with its last entry lost
bulk_phrases_without_cancel ==
    {<<"remove all events">>, <<"delete all events">>, <<"clear all events">>}

\* Lines 462-467: the four phrases of a mass deletion
bulk_phrases ==
    {<<"remove all events">>, <<"delete all events">>,
     <<"clear all events">>, <<"cancel all events">>}

\* The day range of line 471-472 and 476-477: "<date>T00:00:00Z", "<date>T23:59:59Z"
day_range(date) ==
    [start_time |-> Timestamp(date, 0, 0, 0, "", "Z"),
     end_time |-> Timestamp(date, 23, 59, 59, "", "Z")]

\* The intercept falling back on today when the query names no day
bulk_intercept_any_day(text, env) ==
    LET lowered == query_lower(text)
        naive_now == datetime_now_naive(env.now, env.tz)
    IN  IF \E phrase \in bulk_phrases : Contains(lowered, phrase) THEN
            IF Contains(lowered, <<"tomorrow">>)
            THEN [hit |-> TRUE, range |-> day_range(strftime_date(timedelta_days(naive_now, 1)))]
            ELSE [hit |-> TRUE, range |-> day_range(strftime_date(naive_now))]
        ELSE [hit |-> FALSE]

\* The intercept looking for "today" before "tomorrow"
bulk_intercept_today_first(text, env) ==
    LET lowered == query_lower(text)
        naive_now == datetime_now_naive(env.now, env.tz)
    IN  IF \E phrase \in bulk_phrases : Contains(lowered, phrase) THEN
            IF Contains(lowered, <<"today">>)
            THEN [hit |-> TRUE, range |-> day_range(strftime_date(naive_now))]
            ELSE IF Contains(lowered, <<"tomorrow">>)
            THEN [hit |-> TRUE, range |-> day_range(strftime_date(timedelta_days(naive_now, 1)))]
            ELSE [hit |-> FALSE]
        ELSE [hit |-> FALSE]

\* Lines 462-478: the range of the bulk delete the query asks for, if any
bulk_intercept(text, env) ==
    LET lowered == query_lower(text)
        naive_now == datetime_now_naive(env.now, env.tz)
    IN  IF \E phrase \in bulk_phrases : Contains(lowered, phrase) THEN
            IF Contains(lowered, <<"tomorrow">>)
            THEN [hit |-> TRUE, range |-> day_range(strftime_date(timedelta_days(naive_now, 1)))]
            ELSE IF Contains(lowered, <<"today">>)
            THEN [hit |-> TRUE, range |-> day_range(strftime_date(naive_now))]
            ELSE [hit |-> FALSE]
        ELSE [hit |-> FALSE]

\* The help check without the lower-casing
is_help_cased(text) == text \in {<<"help">>, <<"?">>}

\* Line 480: query.lower() in ['help', '?']
is_help(text) == query_lower(text) \in {<<"help">>, <<"?">>}

\* What _get_gpt_response returns: None when the request to the model
\* failed, else a message with tool calls and content
NoResponse == [kind |-> "None"]
Message(tool_calls, content) == [kind |-> "message", tool_calls |-> tool_calls, content |-> content]

\* A tool call; its arguments are a text that eval turns into params, or
\* one eval fails on
ToolCall(name, params) == [name |-> name, evaluates |-> TRUE, params |-> params]
BadToolCall(name) == [name |-> name, evaluates |-> FALSE]

\* What process_query leaves behind
Answer(r, gpt, hs) ==
    [raised |-> r.raised, value |-> IF r.raised THEN [text |-> r.error] ELSE r.value,
     cal |-> r.cal, next_id |-> r.next_id, calls |-> r.calls,
     gpt_calls |-> gpt, handlers |-> hs]

\* The last tool call of the response
last_tool_call(tool_calls) == tool_calls[Len(tool_calls)]

\* Line 518: tool_call = response.tool_calls[0]
first_tool_call(tool_calls) == tool_calls[1]

\* Lines 517-537: the first tool call dispatched, inside the inner try
dispatch(tool_call, env, oracle) ==
    LET function_name == tool_call.name
    IN  IF ~tool_call.evaluates
        THEN [r |-> Thrown("SyntaxError", env.cal, env.next_id, <<>>), handlers |-> <<>>]
        ELSE IF function_name = "schedule_event"
        THEN [r |-> handle_schedule_event(tool_call.params, env, oracle),
              handlers |-> <<"handle_schedule_event">>]
        ELSE IF function_name = "show_events"
        THEN [r |-> handle_show_events(tool_call.params, env, oracle),
              handlers |-> <<"handle_show_events">>]
        ELSE IF function_name = "find_slots"
        THEN [r |-> handle_find_slots(tool_call.params, env, oracle),
              handlers |-> <<"handle_find_slots">>]
        ELSE IF function_name = "update_event"
        THEN [r |-> handle_update_event(tool_call.params, env, oracle),
              handlers |-> <<"handle_update_event">>]
        ELSE IF function_name = "delete_event"
        THEN [r |-> handle_delete_event(tool_call.params, env, oracle),
              handlers |-> <<"handle_delete_event">>]
        ELSE [r |-> Done([text |-> "I don't know how to handle the operation",
                          operation |-> function_name], env.cal, env.next_id, <<>>),
              handlers |-> <<>>]

\* The generic text whatever the classifier wrote
free_text_answer_generic(gpt) ==
    "I'm not sure how to help with that. Type 'help' to see what I can do."

\* Lines 539-544: without a function call the content of the message is
\* returned, and a generic text when there is none
free_text_answer(gpt) ==
    IF gpt.content # "" THEN gpt.content
    ELSE "I'm not sure how to help with that. Type 'help' to see what I can do."

\* process_query(query) when the classifier, if asked, answers gpt and the
\* k-th calendar request ends as oracle[k]
process_query(text, gpt, env, oracle) ==
    LET bulk == bulk_intercept(text, env)
        quiet(value) == Done(value, env.cal, env.next_id, <<>>)
    IN  IF bulk.hit
        THEN Answer(handle_bulk_delete(bulk.range.start_time, bulk.range.end_time, env, oracle),
                    <<>>, <<"handle_bulk_delete">>)
        ELSE IF is_help(text)
        THEN Answer(quiet([text |-> "I can help you manage your calendar!"]), <<>>, <<>>)
        ELSE IF gpt = NoResponse
        THEN Answer(quiet([text |-> "I'm having trouble understanding your request. Please try again or type 'help' for examples."]),
                    <<text>>, <<>>)
        ELSE IF gpt.tool_calls # <<>>
        THEN LET d == dispatch(first_tool_call(gpt.tool_calls), env, oracle)
             IN  Answer(ExceptPlain(d.r, "I understood your request but had trouble processing it. Please try again or rephrase your request."),
                        <<text>>, d.handlers)
        ELSE Answer(quiet([text |-> free_text_answer(gpt)]), <<text>>, <<>>)

-----------------------------------------------------------------------------
(* Inputs *)

\* The pieces queries are written with
Pieces ==
    {"remove all events", "Delete all events", "clear all events", "cancel all events",
     "remove my event", "tomorrow", "Today", "Help"}

RECURSIVE SeqsUpTo(_, _)
SeqsUpTo(S, n) ==
    IF n = 0 THEN {<<>>}
    ELSE LET shorter == SeqsUpTo(S, n - 1)
         IN  shorter \cup {Append(q, x) : q \in {r \in shorter : Len(r) = n - 1}, x \in S}

Queries == SeqsUpTo(Pieces, MaxQueryLen) \ {<<>>}

\* The first instant of the clock, a quarter of a second before the minute,
\* the hour and the UTC day turn, and the step of a tick
ClockStart == At(10, 23, 59, 59) + 750
TickStep == At(0, 4, 35, 37) + 500

\* The events the remote calendar may hold at construction
EventPool ==
    {Event(1, "standup", "", FALSE, At(10, 10, 0, 0), At(10, 11, 0, 0)),
     Event(2, "review", "weekly", FALSE, At(10, 23, 30, 0), At(11, 0, 30, 0)),
     Event(3, "offsite", "", TRUE, At(11, 0, 0, 0), At(12, 0, 0, 0)),
     Event(4, "demo", "", FALSE, At(11, 9, 30, 0), At(11, 10, 30, 0))}

FirstNewId == Cardinality(EventPool) + 1

\* Time expressions the classifier hands over in the dispatch specifications
Exprs ==
    {RelExpr("tomorrow", TRUE, 2, "PM"), RelExpr("Today", FALSE, 0, ""),
     Timestamp(IsoDate(9), 0, 0, 0, "", ""), Timestamp(IsoDate(12), 23, 59, 0, "", ""),
     TextExpr("next week")}

ScheduleParams ==
    {[title |-> "Lunch", start_time |-> e, duration_minutes |-> 60] :
        e \in {RelExpr("tomorrow", TRUE, 2, "PM"), TextExpr("next week"),
                Timestamp(IsoDate(12), 23, 59, 0, "", "")}}
    \cup {[title |-> "Lunch", start_time |-> RelExpr("Today", FALSE, 0, "")]}

ShowParams == {[start_time |-> s, end_time |-> e] : s \in Exprs, e \in Exprs}

FindParams ==
    {[date |-> d, duration_minutes |-> 60] :
        d \in {TextDate("tomorrow"), TextDate("Today"), IsoDate(11), TextDate("next monday")}}

UpdateParams ==
    {[event_id |-> 1, title |-> "Moved"],
     [event_id |-> 1, start_time |-> RelExpr("tomorrow", TRUE, 2, "PM")],
     [event_id |-> 9, start_time |-> TextExpr("next week")],
     [event_id |-> 4, start_time |-> Timestamp(IsoDate(9), 0, 0, 0, "", ""),
      description |-> "notes"],
     [event_id |-> 3, start_time |-> Timestamp(IsoDate(9), 0, 0, 0, "", "")],
     [event_id |-> 4, start_time |-> Timestamp(IsoDate(11), 10, 30, 0, "", "")],
     [event_id |-> 2, description |-> ""],
     [title |-> "Moved"]}

DeleteParams == {[event_id |-> 2], [event_id |-> 9]}

ToolCalls ==
    {ToolCall("schedule_event", p) : p \in ScheduleParams}
    \cup {ToolCall("show_events", p) : p \in ShowParams}
    \cup {ToolCall("find_slots", p) : p \in FindParams}
    \cup {ToolCall("update_event", p) : p \in UpdateParams}
    \cup {ToolCall("delete_event", p) : p \in DeleteParams}
    \cup {ToolCall("send_email", [to |-> "x"]), BadToolCall("delete_event"),
          BadToolCall("send_email")}

\* Answers of the classifier without a tool call
PlainResponses == {NoResponse, Message(<<>>, "Which day do you mean?"), Message(<<>>, "")}

\* Answers of the classifier with several tool calls
SeveralToolCalls ==
    {Message(<<tc, ToolCall("delete_event", [event_id |-> 1])>>, "") :
        tc \in {ToolCall("delete_event", [event_id |-> 2]),
                ToolCall("show_events", [start_time |-> Timestamp(IsoDate(9), 0, 0, 0, "", ""),
                                         end_time |-> Timestamp(IsoDate(12), 23, 59, 0, "", "")]),
                BadToolCall("delete_event")}}

GptResponses ==
    PlainResponses \cup {Message(<<tc>>, "") : tc \in ToolCalls} \cup SeveralToolCalls

-----------------------------------------------------------------------------
(* The state machine *)

NoOutcome == [raised |-> FALSE, value |-> [text |-> ""]]
NoExpr == TextExpr("")
NoReads == <<0, 0, 0>>
NoResult == [raised |-> FALSE, value |-> NoExpr]
NoSlotQuery == [kind |-> "none"]

Quiet ==
    /\ query = <<>> /\ classified = NoResponse /\ current = 0
    /\ outcome = NoOutcome /\ gpt_calls = <<>>
    /\ handlers = <<>> /\ calls = <<>>

\* Without a service no request reaches the remote calendar, whose events
\* then play no part
Init ==
    /\ local_timezone \in TimeZones
    /\ service \in BOOLEAN
    /\ now = ClockStart
    /\ calendar \in {c \in SUBSET EventPool :
                        Cardinality(c) <= (IF service THEN MaxInitEvents ELSE 0)}
    /\ next_id = FirstNewId
    /\ Quiet
    /\ expr = NoExpr /\ clock_reads = NoReads /\ resolved = NoResult
    /\ slot_query = NoSlotQuery /\ available_slots = <<>>
    /\ pc = "idle"

\* The clock may advance while a request is served
ClockDrifts == {0, 500}

\* A bot that gives up its time zone for UTC once it has scheduled an event
EnvAt_remembering(later) ==
    [cal |-> calendar, svc |-> service, next_id |-> next_id,
     tz |-> IF next_id > FirstNewId THEN 0 ELSE local_timezone, now |-> now, later |-> later]

\* What a request finds: the calendar, the handler and bot fields, the clock
\* at its start and the clock at a later reading
EnvAt(later) == [cal |-> calendar, svc |-> service, next_id |-> next_id,
                 tz |-> local_timezone, now |-> now, later |-> later]
Env == EnvAt(now)

\* The classifier's answers to draw from for a text: its answer plays no part
\* in a call that does not reach it
Consulted(text, Gpts) ==
    IF bulk_intercept(text, Env).hit \/ is_help(text) THEN {NoResponse} ELSE Gpts

\* The most calendar requests a call can make: a bulk delete lists once and
\* deletes once per event of its day, a dispatched handler makes one request
Requests(text, gpt) ==
    LET bulk == bulk_intercept(text, Env)
    IN  IF bulk.hit
        THEN 1 + Cardinality({e \in calendar :
                                 /\ e.end > TimestampInstant(bulk.range.start_time)
                                 /\ e.start < TimestampInstant(bulk.range.end_time)})
        ELSE IF gpt # NoResponse /\ gpt.tool_calls # <<>> THEN 1
        ELSE 0

\* The answer a of a call on text, once made: what it leaves in the state
Serve(text, gpt, drift, a) ==
    /\ a.next_id <= FirstNewId + MaxCreated
    /\ drift # 0 => a.handlers = <<"handle_show_events">>
    /\ query' = text
    /\ classified' = gpt
    /\ current' = now + drift
    /\ outcome' = [raised |-> a.raised, value |-> a.value]
    /\ calendar' = a.cal
    /\ next_id' = a.next_id
    /\ gpt_calls' = a.gpt_calls
    /\ handlers' = a.handlers
    /\ calls' = a.calls

\* One process_query call, from the text to the answer
Ask(Texts, Gpts) ==
    /\ pc = "idle"
    /\ \E text \in Texts :
       \E gpt \in Consulted(text, Gpts) :
       \E oracle \in [1..Requests(text, gpt) -> Outcomes], drift \in ClockDrifts :
          Serve(text, gpt, drift, process_query(text, gpt, EnvAt(now + drift), oracle))
    /\ pc' = "answered"
    /\ UNCHANGED <<local_timezone, service, now, expr, clock_reads, resolved, slot_query,
                   available_slots>>

\* The caller takes the answer
Return ==
    /\ pc = "answered"
    /\ pc' = "idle"
    /\ query' = <<>> /\ classified' = NoResponse /\ current' = 0
    /\ outcome' = NoOutcome /\ gpt_calls' = <<>>
    /\ handlers' = <<>> /\ calls' = <<>>
    /\ slot_query' = NoSlotQuery /\ available_slots' = <<>>
    /\ UNCHANGED <<local_timezone, service, now, calendar, next_id, expr, clock_reads, resolved>>

\* Time passes between two requests
Tick ==
    /\ pc = "idle"
    /\ now + TickStep <= ClockStart + MaxTicks * TickStep
    /\ now' = now + TickStep
    /\ UNCHANGED <<local_timezone, service, calendar, next_id, query, classified,
                   current, outcome, gpt_calls, handlers, calls, expr, clock_reads,
                   resolved, slot_query, available_slots, pc>>

\* Queries of the dispatch specification: one per route of the intercept
FewQueries == {<<"remove my event">>, <<"?">>, <<"Help">>, <<"clear all events", "Today">>}

AskDispatch == Ask(FewQueries, GptResponses)

Next == AskDispatch \/ Return \/ Tick

Spec == Init /\ [][Next]_vars

\* Classifier answers of the intercept specification
FewResponses == {NoResponse, Message(<<>>, "Which day do you mean?")}

\* Queries that ask for a mass deletion and name both days
BothDayQueries ==
    {<<"Delete all events", "Today", "tomorrow">>, <<"tomorrow", "cancel all events", "Today">>}

AskIntercept == Ask(Queries \cup BothDayQueries, FewResponses)

NextIntercept == AskIntercept \/ Return \/ Tick

SpecIntercept == Init /\ [][NextIntercept]_vars

-----------------------------------------------------------------------------
(* The availability search *)

\* Dates, durations and working hours asked for
SlotDates == {IsoDate(10), IsoDate(11), TextDate("next monday")}
SlotDurations == {0, 45, 60, 360, 480, 540}
WorkingHours == {<<start_hour, end_hour>>, <<13, 15>>}

\* The call as made, and what it leaves in the state
Searched(date, duration_minutes, hour_from, hour_to, r) ==
    /\ slot_query' = [kind |-> "find_available_slots", date |-> date,
                      duration_minutes |-> duration_minutes,
                      hour_from |-> hour_from, hour_to |-> hour_to]
    /\ available_slots' = r.value
    /\ calls' = r.calls

\* One find_available_slots call
FindAvailable ==
    /\ pc = "idle"
    /\ \E date \in SlotDates, duration_minutes \in SlotDurations, hours \in WorkingHours,
          o \in Outcomes :
          Searched(date, duration_minutes, hours[1], hours[2],
                   find_available_slots(calendar, service, date, duration_minutes,
                                        hours[1], hours[2], o))
    /\ pc' = "answered"
    /\ UNCHANGED <<local_timezone, service, now, calendar, next_id, query, classified,
                   current, outcome, gpt_calls, handlers, expr, clock_reads, resolved>>

\* CalendarChatbot._handle_find (src/server/calendar_chatbot.py), lines
\* 155-165: the answer for the slots find_available_slots returned, their
\* timestamps shown as they are
find_response(slots, duration) ==
    IF slots = <<>>
    THEN [text |-> "No available slots found for the specified time period."]
    ELSE [text |-> "Available slots", duration |-> duration,
          slots |-> [i \in 1..(IF Len(slots) < 5 THEN Len(slots) ELSE 5) |->
                        [start |-> slots[i].start_time, end |-> slots[i].end_time]],
          more |-> IF Len(slots) > 5 THEN Len(slots) - 5 ELSE 0]

\* The dates the pattern of _handle_find passes on as they are
FindDates == {IsoDate(10), IsoDate(11)}

\* One CalendarChatbot._handle_find call, from the date and the duration it
\* extracted on: find_available_slots with its default working hours
HandleFind ==
    /\ pc = "idle"
    /\ \E date \in FindDates, duration \in SlotDurations, o \in Outcomes :
          /\ Searched(date, duration, start_hour, end_hour,
                      find_available_slots(calendar, service, date, duration,
                                           start_hour, end_hour, o))
          /\ outcome' = Returned(find_response(
                            find_available_slots(calendar, service, date, duration,
                                                 start_hour, end_hour, o).value, duration))
    /\ handlers' = <<"_handle_find">>
    /\ pc' = "answered"
    /\ UNCHANGED <<local_timezone, service, now, calendar, next_id, query, classified,
                   current, gpt_calls, expr, clock_reads, resolved>>

\* The classifier's find_slots calls
SlotResponses ==
    {Message(<<ToolCall("find_slots", [date |-> d, duration_minutes |-> m])>>, "") :
        d \in {IsoDate(10), IsoDate(11), TextDate("Tomorrow")}, m \in SlotDurations}

AskSlots == Ask({<<"find a free hour">>}, SlotResponses)

NextSlots == FindAvailable \/ HandleFind \/ AskSlots \/ Return \/ Tick

SpecSlots == Init /\ [][NextSlots]_vars

-----------------------------------------------------------------------------
(* Bulk deletion of a crowded day *)

\* n events that all lie across the days 11 and 12
Crowd(n) ==
    {Event(100 + k, "booking", "", FALSE, At(11, 0, k, 0), At(12, 23, 0, 0)) : k \in 1..n}

\* Sizes around the most events one listing returns
CrowdSizes == {0, 1, max_results, max_results + 1}

InitBulk ==
    /\ local_timezone \in TimeZones
    /\ service = TRUE
    /\ now = ClockStart
    /\ calendar \in {Crowd(n) : n \in CrowdSizes}
    /\ next_id = FirstNewId
    /\ Quiet
    /\ expr = NoExpr /\ clock_reads = NoReads /\ resolved = NoResult
    /\ slot_query = NoSlotQuery /\ available_slots = <<>>
    /\ pc = "idle"

BulkQueries ==
    {<<"clear all events", "tomorrow">>, <<"Delete all events", "tomorrow">>,
     <<"tomorrow", "cancel all events">>}

\* One process_query call asking for a bulk delete, every calendar request of
\* which is served
BulkDeleteServed ==
    /\ pc = "idle"
    /\ \E text \in BulkQueries :
          Serve(text, NoResponse, 0,
                process_query(text, NoResponse, Env,
                              [k \in 1..Requests(text, NoResponse) |-> "ok"]))
    /\ pc' = "answered"
    /\ UNCHANGED <<local_timezone, service, now, expr, clock_reads, resolved, slot_query,
                   available_slots>>

\* The range of the bulk delete was listed again since
Relisted == Len(calls) > 1 /\ calls[Len(calls)].op = "get_events"

\* CalendarHandler.get_events over the range of the bulk delete, called next
ListRange ==
    /\ pc = "answered" /\ handlers = <<"handle_bulk_delete">>
    /\ calls # <<>> /\ ~Relisted
    /\ calls' = Append(calls,
                       Call("get_events", calls[1].times, None, "list",
                            Ids(get_events(calendar, service, calls[1].times[1],
                                           calls[1].times[2], "ok").value)))
    /\ UNCHANGED <<local_timezone, service, now, calendar, next_id, query, classified,
                   current, outcome, gpt_calls, handlers, expr, clock_reads, resolved,
                   slot_query, available_slots, pc>>

NextBulk == BulkDeleteServed \/ ListRange \/ Return \/ Tick

SpecBulk == InitBulk /\ [][NextBulk]_vars

-----------------------------------------------------------------------------
(* _parse_datetime alone *)

\* Time expressions: both day words with every 12-hour clock time, with a
\* 24-hour time and without a time; ISO strings with and without a zone; a
\* text that is none of these
TimeExpressions ==
    {RelExpr(w, TRUE, h, x) : w \in {"tomorrow", "Today"}, h \in 1..12, x \in {"am", "PM"}}
    \cup {RelExpr(w, TRUE, h, "") : w \in {"tomorrow", "Today"}, h \in {0, 15, 24}}
    \cup {RelExpr(w, FALSE, 0, "") : w \in {"Tomorrow", "today"}}
    \cup {Timestamp(IsoDate(11), 10, 0, 0, "", z) : z \in {"", "Z"}}
    \cup {TextExpr("next week")}

InitResolve ==
    /\ local_timezone \in TimeZones
    /\ service = TRUE
    /\ now = ClockStart
    /\ calendar = {}
    /\ next_id = FirstNewId
    /\ Quiet
    /\ expr = NoExpr /\ clock_reads = NoReads /\ resolved = NoResult
    /\ slot_query = NoSlotQuery /\ available_slots = <<>>
    /\ pc = "idle"

\* One evaluation of _parse_datetime, the clock advancing between its readings
Resolve ==
    /\ pc = "idle"
    /\ \E e \in TimeExpressions, d1 \in ClockDrifts, d2 \in ClockDrifts :
          LET reads == <<now, now + d1, now + d1 + d2>>
          IN  /\ expr' = e
              /\ clock_reads' = reads
              /\ resolved' = parse_datetime(e, reads, local_timezone)
    /\ UNCHANGED <<local_timezone, service, now, calendar, next_id, query, classified,
                   current, outcome, gpt_calls, handlers, calls, slot_query,
                   available_slots, pc>>

NextResolve == Resolve \/ Tick

SpecResolve == InitResolve /\ [][NextResolve]_vars

-----------------------------------------------------------------------------
(* Properties *)

Answered == pc = "answered"

\* The query, lower-cased, contains one of the four mass-deletion phrases
MassDeletion(text) ==
    \E i \in 1..Len(text) :
        Lower(text[i]) \in {"remove all events", "delete all events",
                            "clear all events", "cancel all events"}

\* The query, lower-cased, contains the day word
DayWord(text, word) == \E i \in 1..Len(text) : Lower(text[i]) = word

NamesDay(text) == DayWord(text, "tomorrow") \/ DayWord(text, "today")

\* The query is the reserved literal help or ?, in any letter case
HelpLiteral(text) == Len(text) = 1 /\ Lower(text[1]) \in {"help", "?"}

BulkRan == handlers = <<"handle_bulk_delete">>

BulkTexts ==
    {"No events found in the specified time period.", "Successfully deleted",
     "Failed to delete events. Please try again.", "Error deleting events"}

\* C1: process_query returns a response text and never raises to its caller,
\* whatever the classifier answers and however the calendar requests end
\* (failure values or exceptions), on every route: bulk delete, help, each of
\* the five operations, unknown operation, no tool call.
C1_NeverRaises ==
    Answered => /\ ~outcome.raised
                /\ "text" \in DOMAIN outcome.value
                /\ outcome.value.text # ""

\* A bulk delete in which a delete request ended with an exception
C1_Witness ==
    /\ Answered /\ BulkRan /\ Len(calls) >= 2
    /\ calls[Len(calls)].result = "raised"
    /\ ~outcome.raised

\* C2: when the lower-cased query contains a mass-deletion phrase and names
\* tomorrow or today, process_query runs the bulk-delete handler exactly once
\* and returns its result without ever invoking the classifier.
C2_BulkBypassesClassifier ==
    Answered /\ MassDeletion(query) /\ NamesDay(query) =>
        /\ handlers = <<"handle_bulk_delete">>
        /\ gpt_calls = <<>>
        /\ ~outcome.raised /\ outcome.value.text \in BulkTexts
        /\ calls # <<>> /\ calls[1].op = "get_events"

\* The day word ahead of the phrase, and events deleted
C2_Witness ==
    /\ Answered /\ Len(query) = 2 /\ Lower(query[1]) \in {"tomorrow", "today"}
    /\ MassDeletion(query)
    /\ BulkRan /\ outcome.value.text = "Successfully deleted"

\* C3: when the lower-cased query contains no mass-deletion phrase, or one
\* but neither tomorrow nor today, the bulk intercept lists and deletes
\* nothing, and the query goes unchanged to the help check and then to the
\* classifier.
C3_NoInterceptOtherwise ==
    Answered /\ ~(MassDeletion(query) /\ NamesDay(query)) =>
        /\ \A i \in 1..Len(handlers) : handlers[i] # "handle_bulk_delete"
        /\ (classified = NoResponse \/ classified.tool_calls = <<>>) =>
               calls = <<>>
        /\ IF HelpLiteral(query)
           THEN gpt_calls = <<>> /\ outcome.value.text = "I can help you manage your calendar!"
           ELSE gpt_calls = <<query>>

\* A mass-deletion phrase without a day word, handed to the classifier
C3_Witness ==
    /\ Answered /\ MassDeletion(query) /\ ~NamesDay(query)
    /\ gpt_calls = <<query>> /\ calls = <<>>

\* The local calendar date of now
LocalDate == (now + local_timezone) \div Day

\* C4: when the bulk intercept fires for today (resp. tomorrow), the range
\* handed to get_events is exactly D 00:00:00Z to D 23:59:59Z, D being the
\* local calendar date of now (resp. of now + 1 day); _parse_datetime does
\* not shift it by the local UTC offset.
C4_BulkRangeIsLocalDay ==
    Answered /\ BulkRan =>
        LET D == IF DayWord(query, "tomorrow") THEN LocalDate + 1 ELSE LocalDate
        IN  /\ calls # <<>> /\ calls[1].op = "get_events"
            /\ calls[1].times = <<Timestamp(IsoDate(D), 0, 0, 0, "000", "Z"),
                                  Timestamp(IsoDate(D), 23, 59, 59, "000", "Z")>>

\* A bulk delete on a machine whose local date is not the UTC date
C4_Witness ==
    /\ Answered /\ BulkRan /\ calls # <<>>
    /\ local_timezone # 0 /\ LocalDate # now \div Day

\* The listing of a bulk delete came back
BulkListed == Answered /\ BulkRan /\ calls # <<>> /\ calls[1].result = "list"

\* C5: when bulk delete finds k events, delete_event is attempted exactly
\* once for each of them, one at a time in list order, and a failed deletion
\* does not prevent the attempts on the events after it.
C5_EveryEventAttempted ==
    BulkListed =>
        /\ Len(calls) = 1 + Len(calls[1].ids)
        /\ \A i \in 1..Len(calls[1].ids) :
              i + 1 <= Len(calls) =>
                 calls[i + 1].op = "delete_event" /\ calls[i + 1].id = calls[1].ids[i]

Found == Len(calls[1].ids)
Removed == Cardinality({i \in 2..Len(calls) : calls[i].result = "True"})

\* C6: the number N that bulk delete reports equals the number of events
\* whose deletion succeeded, with 0 < N <= number found; the "no events" text
\* is returned exactly when the listing is empty and the "failed to delete"
\* text exactly when events were found and none was removed.
C6_ReportMatchesRemovals ==
    BulkListed =>
        /\ outcome.value.text = "Successfully deleted" =>
              /\ outcome.value.count = Removed
              /\ 0 < outcome.value.count /\ outcome.value.count <= Found
        /\ outcome.value.text = "No events found in the specified time period." <=> Found = 0
        /\ outcome.value.text = "Failed to delete events. Please try again." <=>
              (Found > 0 /\ Removed = 0)

ShowCalled == Answered /\ handlers = <<"handle_show_events">> /\ calls # <<>>

\* The start and end that handle_show_events resolved, and now as line 278
\* takes it (to the second)
ShowStart == parse_datetime(classified.tool_calls[1].params.start_time,
                            <<now, now, now>>, local_timezone).value
ShowEnd == parse_datetime(classified.tool_calls[1].params.end_time,
                          <<now, now, now>>, local_timezone).value
ShowNow == strftime_utc(current)

Straddles ==
    /\ TimestampInstant(ShowStart) < TimestampInstant(ShowNow)
    /\ TimestampInstant(ShowNow) < TimestampInstant(ShowEnd)

\* C7: in ShowEvents the range handed to get_events is (now, end) when
\* resolved start < now < resolved end, and (start, end) unchanged in every
\* other case.
C7_ShowRange ==
    ShowCalled =>
        /\ calls[1].op = "get_events"
        /\ calls[1].times = IF Straddles THEN <<ShowNow, ShowEnd>> ELSE <<ShowStart, ShowEnd>>

\* A range around now, its start raised to now
C7_Witness ==
    /\ ShowCalled /\ Straddles
    /\ calls[1].times[1] = ShowNow /\ ShowStart # ShowNow

Annotated ==
    /\ "adjusted_message" \in DOMAIN outcome.value
    /\ outcome.value.adjusted_message = " (showing only upcoming events)"

\* C8 as stated: whenever ShowEvents clamps the start to now the response
\* carries the annotation, whatever the calendar returns; without a clamp it
\* carries none.
C8_AnnotationAlways == ShowCalled => (Annotated <=> Straddles)

\* C8 as amended: the response carries the annotation exactly when the start
\* was clamped and the calendar returned at least one event for the range.
C8_AnnotationWhenListed ==
    ShowCalled =>
        (Annotated <=> (Straddles /\ calls[1].result = "list" /\ calls[1].ids # <<>>))

\* A clamped range with events in it, annotated
C8_Witness == ShowCalled /\ Straddles /\ calls[1].ids # <<>> /\ Annotated

\* A time argument as the calendar boundary wants it: an ISO date and time
\* with milliseconds and a trailing Z
UtcMillisZ(ts) == ts.kind = "iso" /\ ts.date.iso /\ ts.frac # "" /\ ts.zone = "Z"

\* C9: on every dispatch route every time argument handed to get_events,
\* add_event and update_event is a well-formed UTC instant string with
\* milliseconds and a trailing Z; no unresolved expression goes downstream.
C9_TimeArgumentsWellFormed ==
    Answered =>
        \A i \in 1..Len(calls) : \A j \in 1..Len(calls[i].times) :
            UtcMillisZ(calls[i].times[j])

\* The hour of day of a 12-hour clock time, as the claim gives it
ClaimHour(h, suffix) ==
    IF suffix = "am" /\ h = 12 THEN 0
    ELSE IF suffix = "pm" /\ h = 12 THEN 12
    ELSE IF suffix = "pm" THEN h + 12
    ELSE h

\* C10: "tomorrow at H am|pm" (resp. "today at ...") resolves to the UTC
\* conversion of exactly the local instant reference date + 1 (resp.
\* reference date) at m(H):00.
C10_ClockTimeExact ==
    (expr.kind = "rel" /\ expr.at /\ expr.hour \in 1..12
     /\ Lower(expr.suffix) \in {"am", "pm"}) =>
        LET reference_date == (clock_reads[1] + local_timezone) \div Day
            date == IF Lower(expr.word) = "tomorrow" THEN reference_date + 1
                    ELSE reference_date
        IN  /\ ~resolved.raised
            /\ TimestampInstant(resolved.value)
                 = At(date, ClaimHour(expr.hour, Lower(expr.suffix)), 0, 0) - local_timezone

\* The local wall clock reading of an instant
LocalWall(t) == t + local_timezone

\* The resolved instant has, in local time, the date of the reading ref plus
\* days, and the hour and minute of ref
ProjectsOnto(ref, days) ==
    LET got == LocalWall(TimestampInstant(resolved.value))
    IN  /\ got \div Day = LocalWall(ref) \div Day + days
        /\ (got % Day) \div Minute = (LocalWall(ref) % Day) \div Minute

\* C11: "today" (resp. "tomorrow") without a clock time resolves to an
\* instant whose local projection has the date of reference_now (resp. that
\* date + 1) and the hour and minute of reference_now, for one reference_now
\* per call (one of the readings the call takes) even if the clock advances
\* while the call runs.
C11_OneReferenceNow ==
    (expr.kind = "rel" /\ ~expr.at) =>
        /\ ~resolved.raised
        /\ \E i \in 1..3 :
              ProjectsOnto(clock_reads[i],
                           IF Lower(expr.word) = "tomorrow" THEN 1 ELSE 0)

\* A find_available_slots call on an ISO date has returned, its listing made
SlotsSearched ==
    /\ pc = "answered" /\ slot_query # NoSlotQuery /\ slot_query.date.iso
    /\ calls # <<>> /\ calls[1].result = "list"

\* A find_slots dispatch has answered, its listing made
SlotsAsked ==
    /\ Answered /\ handlers = <<"handle_find_slots">>
    /\ calls # <<>> /\ calls[1].result = "list"

\* The events the listing of the call returned
Listed == {e \in calendar : \E i \in 1..Len(calls[1].ids) : calls[1].ids[i] = e.id}

\* The date a listing was made for
ListedDay == calls[1].times[1].date.day

\* The instant a displayed local time stands for
DisplayInstant(d) == At(d.date, d.hour, d.minute, 0) - local_timezone

\* The number of slots a find_slots answer speaks of: those shown and the rest
SlotsOffered ==
    IF outcome.value.text = "Available slots"
    THEN Len(outcome.value.slots) + outcome.value.more
    ELSE 0

\* The starts of the returned slots are the n first 30-minute steps from
\* hour:00 of the day on
StartsFrom(hour, n) ==
    /\ Len(available_slots) = n
    /\ \A i \in 1..Len(available_slots) :
          TimestampInstant(available_slots[i].start_time)
              = At(slot_query.date.day, hour, 0, 0) + (i - 1) * 30 * Minute

NoBusy == \A e \in Listed : e.all_day

DefaultHourSearch ==
    /\ SlotsSearched /\ NoBusy
    /\ slot_query.duration_minutes = 60
    /\ slot_query.hour_from = 9 /\ slot_query.hour_to = 17

DefaultHourAsk ==
    /\ SlotsAsked /\ Listed = {}
    /\ classified.tool_calls[1].params.duration_minutes = 60

\* C12 as stated: with no busy intervals, duration 60 and working hours 9 to
\* 17, find_slots returns exactly 16 slots, one for every 30-minute start
\* from 09:00 to 16:00 inclusive.
C12_SixteenSlots ==
    /\ DefaultHourSearch => StartsFrom(9, 16)
    /\ DefaultHourAsk => SlotsOffered = 16

\* C12 as amended: it returns exactly 15 slots, one for every 30-minute start
\* from 09:00 to 16:00 inclusive; the find_slots answer shows the first five
\* of them and counts ten more.
C12_FifteenSlots ==
    /\ DefaultHourSearch =>
          /\ StartsFrom(9, 15)
          /\ TimestampInstant(available_slots[15].start_time)
                = At(slot_query.date.day, 16, 0, 0)
    /\ DefaultHourAsk =>
          /\ SlotsOffered = 15
          /\ \A i \in 1..Len(outcome.value.slots) :
                DisplayInstant(outcome.value.slots[i].start)
                    = At(ListedDay, 9, 0, 0) + (i - 1) * 30 * Minute

\* A search of a day without busy intervals that returned its slots
C12_Witness == DefaultHourSearch /\ Len(available_slots) = 15

\* The candidate starts of the search: the 30-minute steps from hour_from:00
\* on whose slot ends by hour_to:00
Candidates ==
    {s \in {At(slot_query.date.day, slot_query.hour_from, 0, 0) + k * 30 * Minute : k \in 0..47} :
        s + slot_query.duration_minutes * Minute <= At(slot_query.date.day, slot_query.hour_to, 0, 0)}

\* The slot [s, s + d) is in the returned list
SlotReturned(s) ==
    \E i \in 1..Len(available_slots) :
        /\ TimestampInstant(available_slots[i].start_time) = s
        /\ TimestampInstant(available_slots[i].end_time)
              = s + slot_query.duration_minutes * Minute

\* A timed busy interval [b, e) of the listing has b < s + d and e > s
Overlapped(s) ==
    \E e \in Listed :
        /\ ~e.all_day
        /\ e.start < s + slot_query.duration_minutes * Minute
        /\ e.end > s

\* C13: find_available_slots returns a candidate slot [s, s+d) if and only if
\* no timed busy interval [b, e) of the day (as the calendar listed it) has
\* b < s+d and e > s; touching endpoints do not conflict.
C13_FreeIffNoOverlap ==
    SlotsSearched =>
        /\ \A s \in Candidates : SlotReturned(s) <=> ~Overlapped(s)
        /\ \A i \in 1..Len(available_slots) :
              TimestampInstant(available_slots[i].start_time) \in Candidates

\* One busy interval 10:00 to 11:00 in working hours and d = 60: the starts
\* 09:00 and 11:00 are returned, 09:30, 10:00 and 10:30 are not
C13_Witness ==
    /\ SlotsSearched /\ slot_query.duration_minutes = 60
    /\ slot_query.hour_from = 9 /\ slot_query.hour_to = 17
    /\ \E e \in Listed : /\ e.start = At(ListedDay, 10, 0, 0)
                         /\ e.end = At(ListedDay, 11, 0, 0)
    /\ SlotReturned(At(ListedDay, 9, 0, 0)) /\ SlotReturned(At(ListedDay, 11, 0, 0))
    /\ ~SlotReturned(At(ListedDay, 9, 30, 0)) /\ ~SlotReturned(At(ListedDay, 10, 0, 0))
    /\ ~SlotReturned(At(ListedDay, 10, 30, 0))

\* The timed events of the listing
ListedTimed == {e \in Listed : ~e.all_day}

\* What find_available_slots returns for the same call on a calendar that
\* holds the timed events of the listing only
SearchWithoutAllDay ==
    find_available_slots(ListedTimed, TRUE, slot_query.date, slot_query.duration_minutes,
                         slot_query.hour_from, slot_query.hour_to, "ok").value

\* What handle_find_slots answers to the same call on such a calendar
AskWithoutAllDay ==
    handle_find_slots(classified.tool_calls[1].params,
                      [EnvAt(now) EXCEPT !.cal = ListedTimed, !.svc = TRUE], <<"ok">>).value

\* C14 for CalendarHandler.find_available_slots alone
AllDayIgnoredBySearch == SlotsSearched => available_slots = SearchWithoutAllDay

\* C14: on a date whose event list contains an all-day event, FindSlots
\* returns the same slots as if that event were absent, both in
\* CalendarHandler.find_available_slots and in CalendarGPTBot.handle_find_slots.
C14_AllDayIgnored ==
    /\ AllDayIgnoredBySearch
    /\ SlotsAsked => outcome.value = AskWithoutAllDay

\* C15: when the input is the reserved literal "help" or "?", in any letter
\* case, process_query returns the static help text and invokes neither the
\* classifier nor any calendar handler operation.
C15_HelpIsStatic ==
    Answered /\ HelpLiteral(query) =>
        /\ outcome = [raised |-> FALSE,
                      value |-> [text |-> "I can help you manage your calendar!"]]
        /\ gpt_calls = <<>> /\ handlers = <<>> /\ calls = <<>>

\* The literal written with a capital
C15_Witness ==
    /\ Answered /\ query = <<"Help">>
    /\ outcome.value.text = "I can help you manage your calendar!"

\* The operations the dispatcher knows
KnownOperations ==
    {"schedule_event", "show_events", "find_slots", "update_event", "delete_event"}

\* The classifier was asked and named an operation outside the table
UnknownNamed ==
    /\ Answered /\ gpt_calls # <<>> /\ classified # NoResponse
    /\ classified.tool_calls # <<>>
    /\ classified.tool_calls[1].name \notin KnownOperations

\* C16: when the classifier returns a function call whose name is none of
\* the five operations, process_query returns the message telling the user
\* that the request was not understood and performs no calendar operation.
C16_UnknownOperation ==
    UnknownNamed =>
        /\ ~outcome.raised
        /\ outcome.value.text = "I don't know how to handle the operation"
        /\ outcome.value.operation = classified.tool_calls[1].name
        /\ handlers = <<>> /\ calls = <<>>

\* The classifier was asked and answered without a function call
NoFunctionCall ==
    /\ Answered /\ gpt_calls # <<>> /\ classified # NoResponse
    /\ classified.tool_calls = <<>>

GenericText == "I'm not sure how to help with that. Type 'help' to see what I can do."

\* C17 as stated: when the classifier returns no function call at all, be it
\* free-form text or an empty message, process_query answers with the generic
\* "didn't understand, try help" message and performs no calendar operation.
C17_GenericWithoutCall ==
    NoFunctionCall =>
        /\ outcome = [raised |-> FALSE, value |-> [text |-> GenericText]]
        /\ handlers = <<>> /\ calls = <<>>

\* C17 as amended: process_query returns the classifier's free-form text as
\* it is, and the generic message only when the message is empty; it performs
\* no calendar operation in either case.
C17_TextOrGeneric ==
    NoFunctionCall =>
        /\ outcome = [raised |-> FALSE,
                      value |-> [text |-> IF classified.content # ""
                                          THEN classified.content ELSE GenericText]]
        /\ handlers = <<>> /\ calls = <<>>

\* The classifier's own words given back
C17_Witness ==
    /\ NoFunctionCall /\ classified.content # ""
    /\ outcome.value.text = classified.content

\* A schedule_event dispatch has created an event
Scheduled ==
    /\ Answered /\ handlers = <<"handle_schedule_event">>
    /\ outcome.value.text = "Successfully scheduled"

\* C18: after a successful ScheduleEvent the confirmation contains the title,
\* the duration, the new event identifier, and the start shown as the resolved
\* instant in local display time, not as the raw expression received.
C18_ConfirmationShowsResolved ==
    Scheduled =>
        LET params == classified.tool_calls[1].params
        IN  /\ outcome.value.title = params.title
            /\ outcome.value.duration = params.duration_minutes
            /\ outcome.value.event_id = calls[1].id
            /\ \E e \in calendar : e.id = outcome.value.event_id
            /\ outcome.value.start = format_event_time(calls[1].times[1], local_timezone)

\* The time expressions among the arguments of the dispatched call
TimeArguments ==
    LET params == classified.tool_calls[1].params
    IN  {params[k] : k \in DOMAIN params \cap {"start_time", "end_time"}}

\* _parse_datetime cannot resolve the expression
Unresolvable(p) == parse_datetime(p, <<now, now, now>>, local_timezone).raised

\* ScheduleEvent, ShowEvents or UpdateEvent was dispatched with a time
\* expression that cannot be resolved
UnresolvedAnswer ==
    /\ Answered
    /\ handlers \in {<<"handle_schedule_event">>, <<"handle_show_events">>,
                     <<"handle_update_event">>}
    /\ \E p \in TimeArguments : Unresolvable(p)

\* The failure message of the dispatched handler
FailureText ==
    CASE handlers = <<"handle_schedule_event">> -> "Error scheduling event"
      [] handlers = <<"handle_show_events">> ->
            "Sorry, I had trouble retrieving your events. Please try again."
      [] handlers = <<"handle_update_event">> -> "Error updating event"

\* The single error of _parse_datetime, carrying the expression, no calendar
\* call, and the handler's failure message
UnresolvedFails ==
    /\ \A p \in TimeArguments :
          Unresolvable(p) =>
             parse_datetime(p, <<now, now, now>>, local_timezone)
                = [raised |-> TRUE, error |-> "Could not parse date", arg |-> p]
    /\ calls = <<>>
    /\ ~outcome.raised /\ outcome.value.text = FailureText

\* C19: when a time expression cannot be resolved, _parse_datetime fails with
\* the single uniform error carrying the original expression, and the
\* dispatching handler (ScheduleEvent, ShowEvents, UpdateEvent) makes no
\* calendar call at all, leaves the calendar unchanged and returns a failure
\* message.
C19_UnresolvedMakesNoCall ==
    [][UnresolvedAnswer' => (UnresolvedFails' /\ calendar' = calendar /\ next_id' = next_id)]_vars

\* An update whose new start cannot be resolved, on a calendar with events
C19_Witness ==
    /\ UnresolvedAnswer /\ handlers = <<"handle_update_event">>
    /\ calendar # {} /\ calls = <<>>
    /\ outcome.value.text = "Error updating event"

\* The bounds of the working hours of the search
SearchOpens == At(slot_query.date.day, slot_query.hour_from, 0, 0)
SearchCloses == At(slot_query.date.day, slot_query.hour_to, 0, 0)

\* Slot i of the returned list, as instants
SlotStart(i) == TimestampInstant(available_slots[i].start_time)
SlotEnd(i) == TimestampInstant(available_slots[i].end_time)

\* Slot i starts a whole number of 30-minute steps after the opening, and ends
\* its duration later, by the closing
OnGrid(i) ==
    /\ SlotStart(i) >= SearchOpens
    /\ (SlotStart(i) - SearchOpens) % (30 * Minute) = 0
    /\ SlotEnd(i) = SlotStart(i) + slot_query.duration_minutes * Minute
    /\ SlotEnd(i) <= SearchCloses

\* The slots a find_slots answer shows lie on the grid of 09:00 of the day and
\* end by 17:00, each after the one before
ShownOnGrid ==
    LET shown == outcome.value.slots
        d == classified.tool_calls[1].params.duration_minutes
    IN  /\ \A i \in 1..Len(shown) :
              /\ DisplayInstant(shown[i].start) >= At(ListedDay, 9, 0, 0)
              /\ (DisplayInstant(shown[i].start) - At(ListedDay, 9, 0, 0)) % (30 * Minute) = 0
              /\ DisplayInstant(shown[i].end) = DisplayInstant(shown[i].start) + d * Minute
              /\ DisplayInstant(shown[i].end) <= At(ListedDay, 17, 0, 0)
        /\ \A i, j \in 1..Len(shown) :
              i < j => DisplayInstant(shown[i].start) < DisplayInstant(shown[j].start)

\* C20: every slot returned by find_slots starts on the 30-minute grid
\* anchored at working_hours.start:00 of the given date, starts no earlier
\* than working_hours.start:00, ends (start + duration) no later than
\* working_hours.end:00, and the returned sequence is in strictly ascending
\* start-time order with no duplicates.
C20_SlotsOnGridAscending ==
    /\ (pc = "answered" /\ slot_query # NoSlotQuery) =>
          /\ \A i \in 1..Len(available_slots) : OnGrid(i)
          /\ \A i, j \in 1..Len(available_slots) : i < j => SlotStart(i) < SlotStart(j)
    /\ (SlotsAsked /\ outcome.value.text = "Available slots") => ShownOnGrid

\* A search around a busy interval: slots before and after it, the last one
\* ending before the closing
C20_Witness ==
    /\ SlotsSearched /\ ~NoBusy
    /\ slot_query.duration_minutes = 45
    /\ Len(available_slots) >= 2
    /\ \E i \in 1..(Len(available_slots) - 1) : SlotStart(i + 1) > SlotStart(i) + 30 * Minute
    /\ SlotEnd(Len(available_slots)) < SearchCloses

\* The slots a find_slots answer shows
Shown == outcome.value.slots

\* C21: every TimeSlot returned by find_slots (find_available_slots and
\* handle_find_slots) satisfies start < end, for every integer
\* duration_minutes the caller or the classifier supplies.
C21_SlotsStartBeforeEnd ==
    /\ (pc = "answered" /\ slot_query # NoSlotQuery) =>
          \A i \in 1..Len(available_slots) : SlotStart(i) < SlotEnd(i)
    /\ (SlotsAsked /\ outcome.value.text = "Available slots") =>
          \A i \in 1..Len(Shown) :
              DisplayInstant(Shown[i].start) < DisplayInstant(Shown[i].end)

\* The number of slots handle_find_slots finds on a day it sees no event of:
\* the 30-minute steps from 09:00 on whose slot ends by 17:00
StepsWithin(d) == Cardinality({k \in 0..47 : k * 30 + d <= (17 - 9) * 60})

AtMostFive(n) == IF n < 5 THEN n ELSE 5

\* A find_slots dispatch that went through its search
SlotsAnswered ==
    /\ SlotsAsked
    /\ outcome.value.text \in {"Available slots", "No available slots found"}

\* A _handle_find call has answered
FindAnswered == Answered /\ handlers = <<"_handle_find">>

\* The answer for n slots found: the first five at most, and the count of the
\* rest when there are more than five; the no-slots message for none
ListsFirstFive(n, none) ==
    IF n = 0 THEN outcome.value.text = none
    ELSE /\ outcome.value.text = "Available slots"
         /\ Len(Shown) = AtMostFive(n)
         /\ outcome.value.more = (IF n > 5 THEN n - 5 ELSE 0)

\* C22: when FindSlots finds n >= 1 available slots, the response lists
\* exactly the first min(n, 5) slots in ascending order, and contains a line
\* giving the count n - 5 of remaining slots if and only if n > 5; when n = 0
\* the response is the "no available slots" message.
C22_FirstFiveAndRest ==
    /\ SlotsAnswered =>
          LET d == classified.tool_calls[1].params.duration_minutes
          IN  /\ ListsFirstFive(StepsWithin(d), "No available slots found")
              /\ StepsWithin(d) > 0 =>
                    \A i \in 1..Len(Shown) :
                        /\ DisplayInstant(Shown[i].start)
                              = At(ListedDay, 9, 0, 0) + (i - 1) * 30 * Minute
                        /\ DisplayInstant(Shown[i].end)
                              = DisplayInstant(Shown[i].start) + d * Minute
    /\ FindAnswered =>
          /\ ListsFirstFive(Len(available_slots),
                            "No available slots found for the specified time period.")
          /\ available_slots # <<>> =>
                \A i \in 1..Len(Shown) :
                    /\ Shown[i].start = available_slots[i].start_time
                    /\ Shown[i].end = available_slots[i].end_time

\* Fifteen slots found: five listed, ten counted
C22_Witness ==
    /\ SlotsAnswered /\ classified.tool_calls[1].params.duration_minutes = 60
    /\ Len(Shown) = 5 /\ outcome.value.more = 10

\* The handler of an operation of the table, and the calendar method it calls
HandlerOf(name) ==
    CASE name = "schedule_event" -> "handle_schedule_event"
      [] name = "show_events" -> "handle_show_events"
      [] name = "find_slots" -> "handle_find_slots"
      [] name = "update_event" -> "handle_update_event"
      [] name = "delete_event" -> "handle_delete_event"

MethodOf(name) ==
    CASE name = "schedule_event" -> "add_event"
      [] name = "show_events" -> "get_events"
      [] name = "find_slots" -> "get_events"
      [] name = "update_event" -> "update_event"
      [] name = "delete_event" -> "delete_event"

\* The classifier was asked and answered with more than one tool call
SeveralCalls ==
    /\ Answered /\ gpt_calls # <<>> /\ classified # NoResponse
    /\ Len(classified.tool_calls) > 1

\* Only the first tool call was dispatched: its handler and no other ran, and
\* every calendar call made is the one of that operation on its identifier
OnlyFirstDispatched ==
    LET first == classified.tool_calls[1]
    IN  /\ handlers = (IF first.evaluates /\ first.name \in KnownOperations
                       THEN <<HandlerOf(first.name)>> ELSE <<>>)
        /\ Len(calls) <= 1
        /\ \A i \in 1..Len(calls) :
              /\ first.evaluates /\ first.name \in KnownOperations
              /\ calls[i].op = MethodOf(first.name)
              /\ first.name \in {"update_event", "delete_event"} =>
                    calls[i].id = first.params.event_id

\* C23: each process_query call dispatches to at most one handler (bulk
\* delete or one of the five operation handlers) and returns exactly one
\* response; when the classifier response carries several tool calls, only
\* the first is dispatched and the others cause no calendar operation.
C23_OneHandlerOneResponse ==
    (Answered /\ query # <<>>) =>
        /\ Len(handlers) <= 1
        /\ \A i \in 1..Len(handlers) :
              handlers[i] \in {"handle_bulk_delete"} \cup {HandlerOf(n) : n \in KnownOperations}
        /\ ~outcome.raised
        /\ SeveralCalls => OnlyFirstDispatched

\* Two deletions asked for, of events 2 and 1: event 2 is gone, event 1 stays
C23_Witness ==
    /\ SeveralCalls /\ handlers = <<"handle_delete_event">>
    /\ classified.tool_calls[2].params.event_id = 1
    /\ Len(calls) = 1 /\ calls[1].id = 2 /\ calls[1].result = "True"
    /\ \E e \in calendar : e.id = 1
    /\ ~\E e \in calendar : e.id = 2

\* An update_event dispatch has answered that the event was updated
UpdateSucceeded ==
    /\ Answered /\ handlers = <<"handle_update_event">>
    /\ outcome.value.text = "Event updated successfully"

\* The start an update asks for, resolved to its UTC instant
AskedStart(params) ==
    TimestampInstant(parse_datetime(params.start_time, <<now, now, now>>, local_timezone).value)

\* Between the calendars before and after, the event the arguments identify
\* has the supplied fields changed to the supplied values and every other
\* field as before, and every other event is as before
ExactlySupplied(params, before, after) ==
    /\ \E e \in before : e.id = params.event_id
    /\ \E e \in after : e.id = params.event_id
    /\ LET old == CHOOSE e \in before : e.id = params.event_id
           new == CHOOSE e \in after : e.id = params.event_id
       IN  /\ new.summary = (IF Has(params, "title") THEN params.title ELSE old.summary)
           /\ new.description = (IF Has(params, "description") THEN params.description
                                 ELSE old.description)
           /\ new.start = (IF Has(params, "start_time") THEN AskedStart(params) ELSE old.start)
           /\ new.end = old.end
           /\ new.all_day = old.all_day
           /\ after \ {new} = before \ {old}

\* C24: UpdateEvent with an identifier and any subset of {title, start-time,
\* description} changes exactly the supplied fields of the identified event
\* (the start-time after resolution to UTC) and leaves every field that was
\* not supplied, and every other event, unchanged.
C24_UpdateChangesExactlySupplied ==
    [][UpdateSucceeded' =>
          ExactlySupplied(classified'.tool_calls[1].params, calendar, calendar')]_vars

\* A step that is one process_query call
QueryStep == pc = "idle" /\ pc' = "answered" /\ query' # <<>>

\* The step leaves behind what the answer a does
AnswersAs(a) ==
    /\ outcome' = [raised |-> a.raised, value |-> a.value]
    /\ handlers' = a.handlers
    /\ calls' = a.calls
    /\ calendar' = a.cal

\* The answer of the step is the one process_query gives for the text, the
\* classifier's answer, the clock and the calendar as the call found it, for
\* some outcomes of its calendar requests
DependsOnInputsOnly ==
    \E oracle \in [1..Requests(query', classified') -> Outcomes] :
        AnswersAs(process_query(query', classified',
                                [cal |-> calendar, svc |-> service, next_id |-> next_id,
                                 tz |-> local_timezone, now |-> now, later |-> current'],
                                oracle))

SlotsOfSearch ==
    available_scan(busy_ranges(SortByStart(Listed)),
                   At(ListedDay, start_hour, 0, 0), At(ListedDay, end_hour, 0, 0),
                   classified.tool_calls[1].params.duration_minutes, <<>>)

\* The answer of the dispatch offers the slots of the sequence ref: it went
\* through its search, shows the first of them and counts the rest
OffersSlots(ref) ==
    /\ outcome.value.text \in {"Available slots", "No available slots found"}
    /\ SlotsOffered = Len(ref)
    /\ outcome.value.text = "Available slots" =>
          \A i \in 1..Len(Shown) :
              /\ DisplayInstant(Shown[i].start) = TimestampInstant(ref[i].start_time)
              /\ DisplayInstant(Shown[i].end) = TimestampInstant(ref[i].end_time)

\* C26: for the same date, duration and list of events of that day (timed and
\* all-day), the FindSlots dispatch handle_find_slots offers the same set of
\* slots as find_available_slots with the default working hours 9 to 17.
C26_DispatchAgreesWithSearch == SlotsAsked => OffersSlots(SlotsOfSearch)

\* The query asks for a mass deletion and names both tomorrow and today
BothDays ==
    /\ Answered /\ MassDeletion(query)
    /\ DayWord(query, "tomorrow") /\ DayWord(query, "today")

\* The event lies in the range of day D, 00:00:00Z to 23:59:59Z
InDayRange(e, D) == e.end > At(D, 0, 0, 0) /\ e.start < At(D, 23, 59, 59)

\* The identifier was listed by the first call or handed to a later one
Touched(cs, id) ==
    \/ \E i \in 1..Len(cs[1].ids) : cs[1].ids[i] = id
    \/ \E i \in 2..Len(cs) : cs[i].id = id

\* One bulk delete ran, which listed tomorrow's range once and deleted
\* nothing outside it
OneBulkDeleteOver(D, before, after, cs) ==
    /\ cs # <<>> /\ cs[1].op = "get_events"
    /\ cs[1].times = <<Timestamp(IsoDate(D), 0, 0, 0, "000", "Z"),
                       Timestamp(IsoDate(D), 23, 59, 59, "000", "Z")>>
    /\ \A i \in 2..Len(cs) : cs[i].op = "delete_event"
    /\ \A e \in before : (Touched(cs, e.id) \/ e \notin after) => InDayRange(e, D)
    /\ after \subseteq before

\* C27: when the query contains a mass-deletion phrase and both day keywords
\* "tomorrow" and "today", exactly one bulk delete runs, over tomorrow's
\* range only; no event of today is listed or deleted.
C27_BothDaysMeansTomorrow ==
    [][BothDays' =>
          /\ handlers' = <<"handle_bulk_delete">> /\ gpt_calls' = <<>>
          /\ OneBulkDeleteOver(LocalDate + 1, calendar, calendar', calls')]_vars

\* Tomorrow's event was deleted and an event of today alone is still there
C27_Witness ==
    /\ BothDays /\ Len(calls) > 1 /\ calls[2].result = "True"
    /\ \E e \in calendar : InDayRange(e, LocalDate) /\ ~InDayRange(e, LocalDate + 1)

\* A bulk delete listed its range, every delete_event call it made succeeded,
\* and the range was listed again
DeletedAllListed ==
    /\ Answered /\ BulkRan /\ Relisted
    /\ calls[1].result = "list" /\ calls[1].ids # <<>>
    /\ \A i \in 2..(Len(calls) - 1) : calls[i].op = "delete_event" /\ calls[i].result = "True"

\* C28: after a bulk delete over a day range in which every delete_event call
\* succeeds, no event remains in that range: a list_events over the same
\* range issued next returns the empty sequence, for any number of events
\* that were in the range.
C28_RangeEmptyAfterBulk == DeletedAllListed => calls[Len(calls)].ids = <<>>

\* A process_query call has answered on one of the paths that only read:
\* ShowEvents or FindSlots, or no handler at all (help, an unknown operation,
\* a failure of the classifier, an answer of the classifier in plain text)
ReadingPath ==
    /\ Answered /\ query # <<>>
    /\ handlers \in {<<"handle_show_events">>, <<"handle_find_slots">>, <<>>}

\* C29: the paths ShowEvents, FindSlots, Help, unknown operation, classifier
\* failure and classifier free-text answer never invoke create_event,
\* update_event or delete_event: the set of calendar events and all their
\* fields are the same after process_query as before it.
C29_ReadingPathsKeepCalendar ==
    [][ReadingPath' =>
          /\ \A i \in 1..Len(calls') : calls'[i].op = "get_events"
          /\ calendar' = calendar
          /\ next_id' = next_id]_vars

\* A listing that showed events of the calendar
C29_Witness ==
    /\ ReadingPath /\ handlers = <<"handle_show_events">>
    /\ calls # <<>> /\ calls[1].ids # <<>>
    /\ \A i \in 1..Len(calls[1].ids) : \E e \in calendar : e.id = calls[1].ids[i]

\* C30: after any sequence of successful ScheduleEvent dispatches with
\* duration_minutes >= 1 and UpdateEvent dispatches (with any subset of
\* title, start-time, description), every timed event stored in the calendar
\* has start < end.
C30_TimedEventsStartBeforeEnd ==
    \A e \in calendar : ~e.all_day => e.start < e.end

====
